---- MODULE Spec2Model ----
(***************************************************************************)
(* Model of the RagFlow DeepSeek CoT optimizer pipe                        *)
(* (src/ragflow_deepseek_cot_optimizer.py): the streaming driver           *)
(* Pipe.pipe, the chunk finalizers _try_finalize_chunks and                *)
(* _finalize_all_chunks, and the chunk transformer _transform_chunk.       *)
(*                                                                         *)
(* A Python str is modelled as a sequence of one-character strings, so     *)
(* that substring search, slicing and str.replace are computed, not        *)
(* assumed.  Chunk texts are strings, as _transform_chunk declares         *)
(* (chunk: str).                                                           *)
(***************************************************************************)
EXTENDS Naturals, Sequences, FiniteSets

----------------------------------------------------------------------------
(* Bounds of the model *)

\* greatest number of upstream lines the streaming loop consumes and continues from
MaxLines == 6

\* greatest number of pieces concatenated into one input text of _transform_chunk
MaxPieces == 3

\* greatest number of messages in a request body
MaxMsgs == 3

\* greatest length of a buffer handed to the finalizers on their own
MaxBuffer == 7

\* greatest length of a buffer handed to forced finalization on its own
MaxDrain == 5

\* greatest length of a buffer whose finalization is followed step by step
MaxLoopBuffer == 2

\* greatest number of delta lines of each of two concurrent responses
MaxLinesTwo == 2

----------------------------------------------------------------------------
(* Literals of the program *)

\* the opening marker
OpenTag == <<"<", "t", "h", "i", "n", "k", ">">>

\* the closing marker
CloseTag == <<"<", "/", "t", "h", "i", "n", "k", ">">>

\* the backtick character (the string lexer does not accept it in a literal,
\* so the character is written by name)
Backtick == "BACKTICK"

\* the block-open decoration: newline, three backticks, Reasoning..., newline
OpenDeco == <<"\n", Backtick, Backtick, Backtick, "R", "e", "a", "s", "o", "n", "i", "n", "g", ".", ".", ".", "\n">>

\* the block-close decoration: newline, three backticks, newline
CloseDeco == <<"\n", Backtick, Backtick, Backtick, "\n">>

\* the leftover fragments removed at the end, longest first
DebrisPatterns ==
  << <<"/", "t", "h", "i", "n", "k", ">">>,
     <<"t", "h", "i", "n", "k", ">">>,
     <<"h", "i", "n", "k", ">">>,
     <<"i", "n", "k", ">">>,
     <<"n", "k", ">">>,
     <<"k", ">">> >>

\* the lookahead window of _try_finalize_chunks
LookAhead == 5

----------------------------------------------------------------------------
(* Python str operations on character sequences *)

\* s[from-1 : ] with a 1-based start
Drop(s, from) == SubSeq(s, from, Len(s))

\* does pat occur in s at the 1-based position i
MatchAt(s, pat, i) ==
  /\ i >= 1
  /\ i + Len(pat) - 1 <= Len(s)
  /\ \A k \in 1..Len(pat) : s[i + k - 1] = pat[k]

\* the first 1-based position at or after i where pat occurs in s, 0 if none
RECURSIVE FindFrom(_, _, _)
FindFrom(s, pat, i) ==
  IF i + Len(pat) - 1 > Len(s)
  THEN 0
  ELSE IF MatchAt(s, pat, i) THEN i ELSE FindFrom(s, pat, i + 1)

\* pat in s
Contains(s, pat) == FindFrom(s, pat, 1) # 0

\* s.index(pat), 1-based; only used where Contains(s, pat)
IndexOf(s, pat) == FindFrom(s, pat, 1)

\* s[:idx] + ins + s[idx + len(pat):], idx the first occurrence of pat
ReplaceFirst(s, pat, ins) ==
  LET idx == IndexOf(s, pat)
  IN  SubSeq(s, 1, idx - 1) \o ins \o Drop(s, idx + Len(pat))

\* s.replace(pat, ""): one left-to-right pass over non-overlapping occurrences;
\* text joined by a removal is not scanned again
RECURSIVE StrRemoveAll(_, _)
StrRemoveAll(s, pat) ==
  IF ~Contains(s, pat)
  THEN s
  ELSE LET idx == IndexOf(s, pat)
       IN  SubSeq(s, 1, idx - 1) \o StrRemoveAll(Drop(s, idx + Len(pat)), pat)

----------------------------------------------------------------------------
(* Pipe._transform_chunk *)

\* faulty opening-marker loop: context["first_think_found"] is never set, so
\* every opening marker becomes a decoration
RECURSIVE ThinkLoopNeverFound(_, _)
ThinkLoopNeverFound(result, found) ==
  IF ~Contains(result, OpenTag)
  THEN [text |-> result, first_think_found |-> found]
  ELSE IF ~found
       THEN ThinkLoopNeverFound(ReplaceFirst(result, OpenTag, OpenDeco), found)
       ELSE ThinkLoopNeverFound(ReplaceFirst(result, OpenTag, <<>>), found)

\* while "<think>" in result: the first one found while first_think_found is
\* false becomes the block-open decoration, the others are deleted
RECURSIVE ThinkLoop(_, _)
ThinkLoop(result, found) ==
  IF ~Contains(result, OpenTag)
  THEN [text |-> result, first_think_found |-> found]
  ELSE IF ~found
       THEN ThinkLoop(ReplaceFirst(result, OpenTag, OpenDeco), TRUE)
       ELSE ThinkLoop(ReplaceFirst(result, OpenTag, <<>>), found)

\* while "</think>" in result: decoration if is_last_think, else deleted
RECURSIVE EndThinkLoop(_, _)
EndThinkLoop(result, is_last_think) ==
  IF ~Contains(result, CloseTag)
  THEN result
  ELSE IF is_last_think
       THEN EndThinkLoop(ReplaceFirst(result, CloseTag, CloseDeco), is_last_think)
       ELSE EndThinkLoop(ReplaceFirst(result, CloseTag, <<>>), is_last_think)

\* for pattern in [...]: result = result.replace(pattern, ""), from the k-th pattern on
RECURSIVE RemoveDebris(_, _)
RemoveDebris(result, k) ==
  IF k > Len(DebrisPatterns)
  THEN result
  ELSE RemoveDebris(StrRemoveAll(result, DebrisPatterns[k]), k + 1)

\* _transform_chunk(chunk, is_last_think, context): the returned text and the
\* value of context["first_think_found"] it leaves
_transform_chunk(chunk, is_last_think, found) ==
  LET opened == ThinkLoop(chunk, found)
      closed == EndThinkLoop(opened.text, is_last_think)
  IN  [text |-> RemoveDebris(closed, 1),
       first_think_found |-> opened.first_think_found]

----------------------------------------------------------------------------
(* Pipe._try_finalize_chunks and Pipe._finalize_all_chunks *)

\* faulty pop: buffer.pop() in place of buffer.pop(i), the newest chunk is removed
RemoveNewest(buffer, j) == SubSeq(buffer, 1, Len(buffer) - 1)

\* buffer.pop(i) with a 1-based position: the list without its j-th element
RemoveAt(buffer, j) == SubSeq(buffer, 1, j - 1) \o Drop(buffer, j + 1)

\* faulty lookahead: buffer[i:] in place of buffer[i : i + 5]
NextChunksAll(buffer, i) == Drop(buffer, i + 1)

\* buffer[i : i + 5] after the pop, i 0-based
NextChunks(buffer, i) ==
  SubSeq(buffer, i + 1, IF i + LookAhead <= Len(buffer) THEN i + LookAhead ELSE Len(buffer))

\* any("</think>" in c for c in next_5)
HasMoreThink(next_5) == \E k \in 1..Len(next_5) : Contains(next_5[k], CloseTag)

\* the while loop of _try_finalize_chunks from index i (0-based) on; the
\* result is the list returned, the buffer as the call leaves it and the
\* context flag as the call leaves it
RECURSIVE TryScan(_, _, _, _, _)
TryScan(buffer, i, finalized, found, partial) ==
  IF ~(i < Len(buffer))
  THEN [finalized |-> finalized, buffer |-> buffer, first_think_found |-> found]
  ELSE LET chunk == buffer[i + 1]
       IN  IF Contains(chunk, CloseTag)
           THEN IF partial /\ (i + LookAhead >= Len(buffer))
                THEN [finalized |-> finalized, buffer |-> buffer,
                      first_think_found |-> found]
                ELSE LET popped    == RemoveAt(buffer, i + 1)
                         next_5    == NextChunks(popped, i)
                         processed == _transform_chunk(chunk, ~HasMoreThink(next_5), found)
                     IN  TryScan(popped, i, Append(finalized, processed.text),
                                 processed.first_think_found, partial)
           ELSE LET popped    == RemoveAt(buffer, i + 1)
                    processed == _transform_chunk(chunk, FALSE, found)
                IN  TryScan(popped, i, Append(finalized, processed.text),
                            processed.first_think_found, partial)

\* faulty partial mode: the scan never waits for the lookahead
TryFinalizeNoWait(buffer, found, partial) == TryScan(buffer, 0, <<>>, found, FALSE)

\* _try_finalize_chunks(buffer, context, partial)
_try_finalize_chunks(buffer, found, partial) == TryScan(buffer, 0, <<>>, found, partial)

\* faulty iteration: is_last_think taken from the chunks that follow
DrainStepLookahead(buffer, yielded, found) ==
  LET chunk     == Head(buffer)
      next_5    == NextChunks(Tail(buffer), 0)
      processed == _transform_chunk(chunk, ~HasMoreThink(next_5), found)
  IN  [finalized |-> Append(yielded, processed.text), buffer |-> Tail(buffer),
       first_think_found |-> processed.first_think_found]

\* one iteration of the while loop of _finalize_all_chunks: pop(0), transform
\* as the last occurrence, yield
DrainStep(buffer, yielded, found) ==
  LET chunk     == Head(buffer)
      processed == _transform_chunk(chunk, TRUE, found)
  IN  [finalized |-> Append(yielded, processed.text), buffer |-> Tail(buffer),
       first_think_found |-> processed.first_think_found]

\* the while loop of _finalize_all_chunks run to its end
RECURSIVE DrainAll(_, _, _)
DrainAll(buffer, yielded, found) ==
  IF buffer = <<>>
  THEN [finalized |-> yielded, buffer |-> buffer, first_think_found |-> found]
  ELSE LET step == DrainStep(buffer, yielded, found)
       IN  DrainAll(step.buffer, step.finalized, step.first_think_found)

\* _finalize_all_chunks(buffer, context), all its yields collected
_finalize_all_chunks(buffer, found) == DrainAll(buffer, <<>>, found)

----------------------------------------------------------------------------
(* State *)

VARIABLES
  pc,              \* position of pipe: "start", "connect", "stream", "yield", "flush", "done"; "off" when unused
  chunk_buffer,    \* the local chunk_buffer of pipe
  context,         \* the local context of pipe: [first_think_found]
  out,             \* everything pipe has yielded, in order
  appended,        \* history: every chunk ever appended to chunk_buffer, in order
  finalize_calls,  \* history: number of times pipe ran _finalize_all_chunks
  exit_path,       \* history: the statement through which pipe leaves, "none" before
  lines_read,      \* history: number of upstream lines taken from aiter_lines
  deltas,          \* the (reasoning_content, content) pairs the upstream of this response sends
  body,            \* the body argument of pipe
  messages,        \* payload["messages"] as sent upstream, <<>> before the request is prepared
  received,        \* history: the delta text of every data line that carried a delta, in order
  finalized,       \* the local finalized of line 133, as far as not yet yielded
  t_pc,            \* transformer harness: "in", "once", "twice"; "off" when unused
  t_chunk,         \* transformer harness: the input text
  t_last,          \* transformer harness: the is_last_think argument
  t_context,       \* transformer harness: the context, mutated by the calls
  t_first,         \* transformer harness: text returned by the first call
  t_second,        \* transformer harness: text returned by the call on t_first
  f_pc,            \* finalizer harness: "in", "draining", "done", "closed"; "off" when unused
  f_buffer,        \* finalizer harness: the buffer before the call
  f_found,         \* finalizer harness: context["first_think_found"] before the call
  f_mode,          \* finalizer harness: the call, "partial", "full" (partial=False) or "forced"
  f_result,        \* finalizer harness: what the call has returned or yielded, and left, so far
  l_pc,            \* loop harness: "scan", "think_loop", "end_think_loop", "done"; "off" when unused
  l_mode,          \* loop harness: "partial", "full" (partial=False) or "forced"
  l_buffer0,       \* loop harness, history: the buffer before the call
  l_found0,        \* loop harness, history: context["first_think_found"] before the call
  l_buffer,        \* loop harness: the buffer
  l_found,         \* loop harness: context["first_think_found"]
  l_finalized,     \* loop harness: the chunks finalized so far
  l_result,        \* loop harness: the local result of the running _transform_chunk
  l_last,          \* loop harness: the is_last_think argument of the running _transform_chunk
  l_steps,         \* loop harness, history: iterations of the marker loops of the running _transform_chunk
  emitter,         \* two responses: self.emitter, 0 for None
  r_pc,            \* two responses: position of each pipe call: "start", "stream", "yield", "flush", "done"; "off" when unused
  store,           \* two responses: the chunk_buffer and context objects, by storage slot
  r_finalized,     \* two responses: the local finalized of each call, as far as not yet yielded
  r_out,           \* two responses: everything each call has yielded, in order
  r_chunks         \* two responses, history: the chunks each call has appended, in order

vars == <<pc, chunk_buffer, context, out, appended, finalize_calls, exit_path,
          lines_read, deltas, body, messages, received, finalized, t_pc, t_chunk, t_last, t_context, t_first, t_second,
          f_pc, f_buffer, f_found, f_mode, f_result,
          l_pc, l_mode, l_buffer0, l_found0, l_buffer, l_found, l_finalized,
          l_result, l_last, l_steps,
          emitter, r_pc, store, r_finalized, r_out, r_chunks>>

pipeVars == <<pc, chunk_buffer, context, out, appended, finalize_calls, exit_path,
              lines_read, deltas, body, messages, received, finalized>>

transformVars == <<t_pc, t_chunk, t_last, t_context, t_first, t_second>>

finalizerVars == <<f_pc, f_buffer, f_found, f_mode, f_result>>

loopVars == <<l_pc, l_mode, l_buffer0, l_found0, l_buffer, l_found, l_finalized,
              l_result, l_last, l_steps>>

twoVars == <<emitter, r_pc, store, r_finalized, r_out, r_chunks>>

harnessVars == <<transformVars, finalizerVars, loopVars, twoVars>>

\* the two pipe calls running on one Pipe instance
Responses == {1, 2}

\* a fresh chunk_buffer and context, lines 76-77
FreshState == [chunk_buffer |-> <<>>, context |-> [first_think_found |-> FALSE]]

\* the two-response harness is not in use
TwoOff ==
  /\ emitter = 0
  /\ r_pc = [r \in Responses |-> "off"]
  /\ store = [s \in Responses |-> FreshState]
  /\ r_finalized = [r \in Responses |-> <<>>]
  /\ r_out = [r \in Responses |-> <<>>]
  /\ r_chunks = [r \in Responses |-> <<>>]

\* the loop harness is not in use
LoopOff ==
  /\ l_pc = "off"
  /\ l_mode = "none"
  /\ l_buffer0 = <<>>
  /\ l_found0 = FALSE
  /\ l_buffer = <<>>
  /\ l_found = FALSE
  /\ l_finalized = <<>>
  /\ l_result = <<>>
  /\ l_last = FALSE
  /\ l_steps = 0

\* the transformer harness is not in use
TransformOff ==
  /\ t_pc = "off"
  /\ t_chunk = <<>>
  /\ t_last = FALSE
  /\ t_context = [first_think_found |-> FALSE]
  /\ t_first = <<>>
  /\ t_second = <<>>

NoResult == [finalized |-> <<>>, buffer |-> <<>>, first_think_found |-> FALSE]

\* the finalizer harness is not in use
FinalizerOff ==
  /\ f_pc = "off"
  /\ f_buffer = <<>>
  /\ f_found = FALSE
  /\ f_mode = "none"
  /\ f_result = NoResult

\* a text fragment yielded by pipe
TextItem(text) == [type |-> "text", body |-> text]

\* a JSON error payload yielded by pipe; label stands for its message
ErrorItem(label) == [type |-> "error", body |-> <<label>>]

----------------------------------------------------------------------------
(* Upstream lines *)

\* a (reasoning_content, content) pair of a delta; an absent field is ""
Delta(reasoning_content, content) ==
  [reasoning_content |-> reasoning_content, content |-> content]

\* the deltas of an ordinary response: plain text, a closing marker inside
\* text, two opening markers
Deltas ==
  { Delta(<<>>, <<"x">>),
    Delta(<<"a">> \o CloseTag, <<"b">>),
    Delta(OpenTag \o <<"x">>, OpenTag \o <<"y">>) }

\* the deltas of one response: two of the three kinds
DeltaPairs == {sent \in SUBSET Deltas : Cardinality(sent) = 2}

\* the deltas of a response whose upstream tears marker after its first cut
\* characters: the text before the tear and the text after it
TornDeltas(marker, cut) ==
  { Delta(<<>>, SubSeq(marker, 1, cut)),
    Delta(<<>>, Drop(marker, cut + 1)) }

\* every way of tearing one of the two markers in two non-empty parts
TornDeltaSets ==
  { TornDeltas(marker, cut) : marker \in {OpenTag}, cut \in 1..(Len(OpenTag) - 1) }
  \cup { TornDeltas(marker, cut) : marker \in {CloseTag}, cut \in 1..(Len(CloseTag) - 1) }

NoDelta == [reasoning_content |-> <<>>, content |-> <<>>]

\* one raw line of response.aiter_lines(), as far as pipe looks at it:
\* data_prefix: it starts with "data:"; json_str: "[DONE]", "malformed" (not
\* JSON) or "object"; choices: length of data["choices"]; finish_reason: the
\* first choice has a truthy finish_reason; has_delta: it has a "delta" key
UpstreamLine(data_prefix, json_str, choices, finish_reason, has_delta, delta) ==
  [data_prefix |-> data_prefix, json_str |-> json_str, choices |-> choices,
   finish_reason |-> finish_reason, has_delta |-> has_delta, delta |-> delta]

Lines(sent) ==
  { UpstreamLine(FALSE, "object", 0, FALSE, FALSE, NoDelta),
    UpstreamLine(TRUE, "[DONE]", 0, FALSE, FALSE, NoDelta),
    UpstreamLine(TRUE, "malformed", 0, FALSE, FALSE, NoDelta),
    UpstreamLine(TRUE, "object", 0, FALSE, FALSE, NoDelta),
    UpstreamLine(TRUE, "object", 1, FALSE, FALSE, NoDelta) }
  \cup { UpstreamLine(TRUE, "object", 1, TRUE, TRUE, d) : d \in sent }
  \cup { UpstreamLine(TRUE, "object", 1, FALSE, TRUE, d) : d \in sent }

----------------------------------------------------------------------------
(* The request body and the normalization of its messages *)

Roles == {"user", "assistant", "system"}

\* stands for a message dict without the "role" key
Absent == "(absent)"

Message(role, content) == [role |-> role, content |-> content]

\* {"role": alt_role, "content": "[Unfinished thinking]"}
Placeholder(alt_role) == Message(alt_role, "[Unfinished thinking]")

\* the body argument of pipe as far as pipe looks at it: has_model and
\* has_messages tell whether the keys "model" and "messages" are present
Body(has_model, has_messages, msgs) ==
  [has_model |-> has_model, has_messages |-> has_messages, messages |-> msgs]

\* the contents of the messages of a body, by position
Contents == <<"m1", "m2", "m3", "m4", "m5", "m6">>

\* all lists of at most n messages
RECURSIVE MessageLists(_)
MessageLists(n) ==
  IF n = 0
  THEN {<<>>}
  ELSE LET shorter == MessageLists(n - 1)
       IN  shorter \cup {Append(m, Message(r, Contents[Len(m) + 1])) :
                           m \in shorter, r \in Roles \cup {Absent}}

Bodies ==
  {Body(has_model, TRUE, m) : has_model \in BOOLEAN, m \in MessageLists(MaxMsgs)}
  \cup {Body(has_model, FALSE, <<>>) : has_model \in BOOLEAN}

\* the bodies of the responses whose streaming is explored: a well-formed one
\* and one without the "model" key
SpecBodies ==
  { Body(TRUE, TRUE, <<Message("user", Contents[1])>>),
    Body(FALSE, TRUE, <<Message("user", Contents[1])>>) }

\* lines 63-73 raise KeyError: body["model"], payload["messages"], or
\* messages[i]["role"], which the loop evaluates for every message of a list
\* of two or more
RaisesBeforeBuffer(b) ==
  \/ ~b.has_model
  \/ ~b.has_messages
  \/ /\ Len(b.messages) >= 2
     /\ \E k \in 1..Len(b.messages) : b.messages[k].role = Absent

\* messages.insert(i, x), i 0-based
InsertAt(msgs, i, x) == SubSeq(msgs, 1, i) \o <<x>> \o Drop(msgs, i + 1)

\* faulty normalization: the placeholder always has the role "user"
RECURSIVE NormalizeAlwaysUser(_, _)
NormalizeAlwaysUser(msgs, i) ==
  IF i < 1 \/ msgs[i + 1].role = Absent \/ msgs[i].role = Absent
  THEN msgs
  ELSE IF msgs[i + 1].role = msgs[i].role
       THEN NormalizeAlwaysUser(InsertAt(msgs, i, Placeholder("user")), i - 1)
       ELSE NormalizeAlwaysUser(msgs, i - 1)

\* for i in range(len(messages) - 1, 0, -1) from index i (0-based) down: a
\* placeholder of the alternate role is inserted between equal-role
\* neighbours; at a message without "role" the comparison raises KeyError and
\* the list stays as the loop has left it
RECURSIVE NormalizeFrom(_, _)
NormalizeFrom(msgs, i) ==
  IF i < 1 \/ msgs[i + 1].role = Absent \/ msgs[i].role = Absent
  THEN msgs
  ELSE IF msgs[i + 1].role = msgs[i].role
       THEN LET alt_role == IF msgs[i + 1].role = "user" THEN "assistant" ELSE "user"
            IN  NormalizeFrom(InsertAt(msgs, i, Placeholder(alt_role)), i - 1)
       ELSE NormalizeFrom(msgs, i - 1)

Normalize(msgs) == NormalizeFrom(msgs, Len(msgs) - 1)

\* the caller's body after lines 63-73: payload = {**body, ...} is a shallow
\* copy, so messages is the list of body itself and the placeholders are
\* inserted into it, as far as the lines are reached
BodyAfterNormalization(b) ==
  IF b.has_model /\ b.has_messages
  THEN [b EXCEPT !.messages = Normalize(b.messages)]
  ELSE b

----------------------------------------------------------------------------
(* Pipe.pipe *)

Init ==
  /\ pc = "start"
  /\ chunk_buffer = <<>>
  /\ context = [first_think_found |-> FALSE]
  /\ out = <<>>
  /\ appended = <<>>
  /\ finalize_calls = 0
  /\ exit_path = "none"
  /\ lines_read = 0
  /\ deltas \in DeltaPairs
  /\ body \in SpecBodies
  /\ messages = <<>>
  /\ received = <<>>
  /\ finalized = <<>>
  /\ TransformOff
  /\ FinalizerOff
  /\ LoopOff
  /\ TwoOff

\* no response is running
PipeOff ==
  /\ pc = "off"
  /\ chunk_buffer = <<>>
  /\ context = [first_think_found |-> FALSE]
  /\ out = <<>>
  /\ appended = <<>>
  /\ finalize_calls = 0
  /\ exit_path = "none"
  /\ lines_read = 0
  /\ deltas = Deltas
  /\ body = Body(TRUE, TRUE, <<>>)
  /\ messages = <<>>
  /\ received = <<>>
  /\ finalized = <<>>

\* pipe returns: it yields nothing more and reads nothing more
Stop(path) ==
  /\ pc' = "done"
  /\ exit_path' = path

\* one iteration of "while buffer" in _finalize_all_chunks together with the
\* yield of pipe that forwards its item: pop(0), transform as the last
\* occurrence, yield
YieldFlushed ==
  LET processed == _transform_chunk(Head(chunk_buffer), TRUE, context.first_think_found)
  IN  /\ out' = Append(out, TextItem(processed.text))
      /\ chunk_buffer' = Tail(chunk_buffer)
      /\ context' = [context EXCEPT !.first_think_found = processed.first_think_found]

\* async for final_chunk in self._finalize_all_chunks(chunk_buffer, context):
\* yield final_chunk; return -- up to the first yield: with an empty buffer
\* pipe returns, otherwise it is suspended at the yield of the oldest chunk,
\* and returns from there when that chunk was the only one
ForcedFinalization(path) ==
  /\ finalize_calls' = finalize_calls + 1
  /\ exit_path' = path
  /\ IF chunk_buffer = <<>>
     THEN /\ pc' = "done"
          /\ UNCHANGED <<chunk_buffer, context, out>>
     ELSE /\ YieldFlushed
          /\ pc' = IF Tail(chunk_buffer) = <<>> THEN "done" ELSE "flush"

\* if not self.valves.API_KEY: yield the error and return
NoApiKey ==
  /\ pc = "start"
  /\ out' = Append(out, ErrorItem("API key not configured"))
  /\ Stop("no_api_key")
  /\ UNCHANGED <<chunk_buffer, context, appended, finalize_calls, lines_read>>
  /\ UNCHANGED <<deltas, body, messages, received, finalized, harnessVars>>

\* faulty preparation: the context starts with first_think_found set
PrepareRequestFound ==
  /\ pc = "start"
  /\ ~RaisesBeforeBuffer(body)
  /\ pc' = "connect"
  /\ messages' = Normalize(body.messages)
  /\ body' = BodyAfterNormalization(body)
  /\ chunk_buffer' = <<>>
  /\ context' = [first_think_found |-> TRUE]
  /\ UNCHANGED <<out, appended, finalize_calls, exit_path, lines_read>>
  /\ UNCHANGED <<deltas, received, finalized, harnessVars>>

\* the request is prepared: the model name and the messages are read, the
\* messages are normalized in place, chunk_buffer = [] and
\* context = {"first_think_found": False}
PrepareRequest ==
  /\ pc = "start"
  /\ ~RaisesBeforeBuffer(body)
  /\ pc' = "connect"
  /\ messages' = Normalize(body.messages)
  /\ body' = BodyAfterNormalization(body)
  /\ chunk_buffer' = <<>>
  /\ context' = [first_think_found |-> FALSE]
  /\ UNCHANGED <<out, appended, finalize_calls, exit_path, lines_read>>
  /\ UNCHANGED <<deltas, received, finalized, harnessVars>>

\* body["model"], payload["messages"] or messages[i]["role"] raises KeyError
\* before chunk_buffer and context are bound: the except clause evaluates
\* chunk_buffer, which raises UnboundLocalError, and that exception leaves
\* pipe with nothing yielded; the placeholders inserted before the KeyError
\* stay in the caller's body
RequestFails ==
  /\ pc = "start"
  /\ RaisesBeforeBuffer(body)
  /\ Stop("propagated")
  /\ body' = BodyAfterNormalization(body)
  /\ UNCHANGED <<chunk_buffer, context, out, appended, finalize_calls, lines_read>>
  /\ UNCHANGED <<deltas, messages, received, finalized, harnessVars>>

\* if response.status_code != 200: yield self._format_error(...) and return
HttpError ==
  /\ pc = "connect"
  /\ out' = Append(out, ErrorItem("HTTP status"))
  /\ Stop("http_error")
  /\ UNCHANGED <<chunk_buffer, context, appended, finalize_calls, lines_read>>
  /\ UNCHANGED <<deltas, body, messages, received, finalized, harnessVars>>

\* status 200: pipe enters the loop over response.aiter_lines()
OpenStream ==
  /\ pc = "connect"
  /\ pc' = "stream"
  /\ UNCHANGED <<chunk_buffer, context, out, appended, finalize_calls, exit_path, lines_read>>
  /\ UNCHANGED <<deltas, body, messages, received, finalized, harnessVars>>

\* a line without the data prefix, or a payload with no choices: continue
SkipLine ==
  /\ pc = "stream"
  /\ lines_read < MaxLines
  /\ \E line \in Lines(deltas) :
       \/ ~line.data_prefix
       \/ /\ line.data_prefix
          /\ line.json_str = "object"
          /\ line.choices = 0
  /\ lines_read' = lines_read + 1
  /\ UNCHANGED <<pc, chunk_buffer, context, out, appended, finalize_calls, exit_path>>
  /\ UNCHANGED <<deltas, body, messages, received, finalized, harnessVars>>

\* json_str == "[DONE]": forced finalization, return
DoneMarker ==
  /\ pc = "stream"
  /\ \E line \in Lines(deltas) :
       /\ line.data_prefix
       /\ line.json_str = "[DONE]"
  /\ lines_read' = lines_read + 1
  /\ ForcedFinalization("done_marker")
  /\ UNCHANGED appended
  /\ UNCHANGED <<deltas, body, messages, received, finalized, harnessVars>>

\* faulty handling of a malformed payload: "continue" in place of "return"
MalformedLineContinues ==
  /\ pc = "stream"
  /\ \E line \in Lines(deltas) :
       /\ line.data_prefix
       /\ line.json_str = "malformed"
  /\ lines_read' = lines_read + 1
  /\ out' = Append(out, ErrorItem("HTTP JSONDecodeError"))
  /\ pc' = pc
  /\ exit_path' = "malformed"
  /\ UNCHANGED <<chunk_buffer, context, appended, finalize_calls>>
  /\ UNCHANGED <<deltas, body, messages, received, finalized, harnessVars>>

\* json.loads raises JSONDecodeError: yield the error and return
MalformedLine ==
  /\ pc = "stream"
  /\ \E line \in Lines(deltas) :
       /\ line.data_prefix
       /\ line.json_str = "malformed"
  /\ lines_read' = lines_read + 1
  /\ out' = Append(out, ErrorItem("HTTP JSONDecodeError"))
  /\ Stop("malformed")
  /\ UNCHANGED <<chunk_buffer, context, appended, finalize_calls>>
  /\ UNCHANGED <<deltas, body, messages, received, finalized, harnessVars>>

\* choice.get("finish_reason") is truthy: forced finalization, return; the
\* delta of the line is not read
FinishReason ==
  /\ pc = "stream"
  /\ \E line \in Lines(deltas) :
       /\ line.data_prefix
       /\ line.json_str = "object"
       /\ line.choices > 0
       /\ line.finish_reason
       /\ received' = IF line.has_delta
                      THEN Append(received, line.delta.reasoning_content \o line.delta.content)
                      ELSE received
  /\ lines_read' = lines_read + 1
  /\ ForcedFinalization("finish_reason")
  /\ UNCHANGED appended
  /\ UNCHANGED <<deltas, body, messages, finalized, harnessVars>>

\* faulty except clause: the exception payload is yielded before the buffered
\* chunks are flushed
ExceptClauseErrorFirst ==
  /\ finalize_calls' = finalize_calls + 1
  /\ exit_path' = "exception"
  /\ out' = Append(out, ErrorItem("exception"))
  /\ pc' = IF chunk_buffer = <<>> THEN "done" ELSE "flush"
  /\ UNCHANGED <<chunk_buffer, context>>

\* except Exception as e: forced finalization, then the exception payload --
\* up to the first yield: the oldest buffered chunk, or the payload when the
\* buffer is empty, after which pipe ends
ExceptClause ==
  /\ finalize_calls' = finalize_calls + 1
  /\ exit_path' = "exception"
  /\ IF chunk_buffer = <<>>
     THEN /\ out' = Append(out, ErrorItem("exception"))
          /\ pc' = "done"
          /\ UNCHANGED <<chunk_buffer, context>>
     ELSE /\ YieldFlushed
          /\ pc' = "flush"

\* choice["delta"] raises KeyError: the except clause runs
MissingDelta ==
  /\ pc = "stream"
  /\ \E line \in Lines(deltas) :
       /\ line.data_prefix
       /\ line.json_str = "object"
       /\ line.choices > 0
       /\ ~line.finish_reason
       /\ ~line.has_delta
  /\ lines_read' = lines_read + 1
  /\ ExceptClause
  /\ UNCHANGED appended
  /\ UNCHANGED <<deltas, body, messages, received, finalized, harnessVars>>

\* faulty delta line: the chunk is appended and nothing is finalized
DeltaLineNoFinalize ==
  /\ pc = "stream"
  /\ lines_read < MaxLines
  /\ \E line \in Lines(deltas) :
       /\ line.data_prefix
       /\ line.json_str = "object"
       /\ line.choices > 0
       /\ ~line.finish_reason
       /\ line.has_delta
       /\ LET new_chunk == line.delta.reasoning_content \o line.delta.content
          IN  /\ appended' = Append(appended, new_chunk)
              /\ received' = Append(received, new_chunk)
              /\ chunk_buffer' = Append(chunk_buffer, new_chunk)
  /\ lines_read' = lines_read + 1
  /\ UNCHANGED <<pc, context, out, finalize_calls, exit_path>>
  /\ UNCHANGED <<deltas, body, messages, finalized, harnessVars>>

\* a delta line: append reasoning_content + content, finalize what can be
\* finalized in partial mode, and run to the first yield of the loop of line
\* 136, or to the await of the next line when nothing was finalized
DeltaLine ==
  /\ pc = "stream"
  /\ lines_read < MaxLines
  /\ \E line \in Lines(deltas) :
       /\ line.data_prefix
       /\ line.json_str = "object"
       /\ line.choices > 0
       /\ ~line.finish_reason
       /\ line.has_delta
       /\ LET new_chunk == line.delta.reasoning_content \o line.delta.content
              result    == _try_finalize_chunks(Append(chunk_buffer, new_chunk),
                                                context.first_think_found, TRUE)
          IN  /\ appended' = Append(appended, new_chunk)
              /\ received' = Append(received, new_chunk)
              /\ chunk_buffer' = result.buffer
              /\ context' = [context EXCEPT !.first_think_found = result.first_think_found]
              /\ IF result.finalized = <<>>
                 THEN /\ out' = out
                      /\ finalized' = <<>>
                      /\ pc' = "stream"
                 ELSE /\ out' = Append(out, TextItem(Head(result.finalized)))
                      /\ finalized' = Tail(result.finalized)
                      /\ pc' = IF Tail(result.finalized) = <<>> THEN "stream" ELSE "yield"
  /\ lines_read' = lines_read + 1
  /\ UNCHANGED <<finalize_calls, exit_path>>
  /\ UNCHANGED <<deltas, body, messages, harnessVars>>

\* aiter_lines is exhausted without an end marker: the loop ends and pipe
\* falls off the end of the try block
StreamEnds ==
  /\ pc = "stream"
  /\ Stop("end_of_stream")
  /\ UNCHANGED <<chunk_buffer, context, out, appended, finalize_calls, lines_read>>
  /\ UNCHANGED <<deltas, body, messages, received, finalized, harnessVars>>

\* aiter_lines raises (transport error, timeout): the except clause runs
TransportError ==
  /\ pc = "stream"
  /\ ExceptClause
  /\ UNCHANGED <<appended, lines_read>>
  /\ UNCHANGED <<deltas, body, messages, received, finalized, harnessVars>>

\* faulty forced finalization: "if buffer" in place of "while buffer", pipe
\* is resumed after the first flushed chunk and ends
FlushNextStops ==
  /\ pc = "flush"
  /\ chunk_buffer # <<>>
  /\ pc' = "done"
  /\ UNCHANGED <<chunk_buffer, context, out, appended, finalize_calls, exit_path, lines_read>>
  /\ UNCHANGED <<deltas, body, messages, received, finalized, harnessVars>>

\* pipe is resumed at the yield of a flushed chunk while chunks are left:
\* the next iteration of "while buffer" and its yield; after the last chunk
\* pipe returns, unless the exception payload is still to come
FlushNext ==
  /\ pc = "flush"
  /\ chunk_buffer # <<>>
  /\ YieldFlushed
  /\ pc' = IF Tail(chunk_buffer) = <<>> /\ exit_path # "exception" THEN "done" ELSE "flush"
  /\ UNCHANGED <<appended, finalize_calls, exit_path, lines_read>>
  /\ UNCHANGED <<deltas, body, messages, received, finalized, harnessVars>>

\* pipe is resumed at the yield of the last flushed chunk in the except
\* clause: yield self._format_exception(e), and pipe ends
YieldException ==
  /\ pc = "flush"
  /\ chunk_buffer = <<>>
  /\ exit_path = "exception"
  /\ out' = Append(out, ErrorItem("exception"))
  /\ pc' = "done"
  /\ UNCHANGED <<chunk_buffer, context, appended, finalize_calls, exit_path, lines_read>>
  /\ UNCHANGED <<deltas, body, messages, received, finalized, harnessVars>>

\* pipe is resumed at the yield of line 138 while finalized holds more
\* items: the next one is yielded; after the last one pipe awaits the next line
YieldNextFinalized ==
  /\ pc = "yield"
  /\ out' = Append(out, TextItem(Head(finalized)))
  /\ finalized' = Tail(finalized)
  /\ pc' = IF Tail(finalized) = <<>> THEN "stream" ELSE "yield"
  /\ UNCHANGED <<chunk_buffer, context, appended, finalize_calls, exit_path, lines_read>>
  /\ UNCHANGED <<deltas, body, messages, received, harnessVars>>

\* the consumer stops reading while pipe is inside the streaming loop:
\* GeneratorExit is raised at the yield where pipe is suspended (line 102,
\* 122, 138 or 143), or CancelledError at the await of the next line (line
\* 92); neither is an Exception, so the except clause of line 140 does not
\* run and pipe ends as it is
ConsumerCloses ==
  /\ pc \in {"stream", "yield", "flush"}
  /\ Stop("closed")
  /\ UNCHANGED <<chunk_buffer, context, out, appended, finalize_calls, lines_read>>
  /\ UNCHANGED <<deltas, body, messages, received, finalized, harnessVars>>

Next ==
  \/ NoApiKey
  \/ PrepareRequest
  \/ RequestFails
  \/ HttpError
  \/ OpenStream
  \/ SkipLine
  \/ DoneMarker
  \/ MalformedLine
  \/ FinishReason
  \/ MissingDelta
  \/ DeltaLine
  \/ YieldNextFinalized
  \/ FlushNext
  \/ YieldException
  \/ ConsumerCloses
  \/ StreamEnds
  \/ TransportError

Spec == Init /\ [][Next]_vars

\* a response whose upstream tears a marker across two deltas, or sends the
\* ordinary deltas
InitTorn ==
  /\ pc = "start"
  /\ chunk_buffer = <<>>
  /\ context = [first_think_found |-> FALSE]
  /\ out = <<>>
  /\ appended = <<>>
  /\ finalize_calls = 0
  /\ exit_path = "none"
  /\ lines_read = 0
  /\ deltas \in TornDeltaSets \cup DeltaPairs
  /\ body \in SpecBodies
  /\ messages = <<>>
  /\ received = <<>>
  /\ finalized = <<>>
  /\ TransformOff
  /\ FinalizerOff
  /\ LoopOff
  /\ TwoOff

SpecTorn == InitTorn /\ [][Next]_vars

\* a call of pipe with any request body
InitM ==
  /\ pc = "start"
  /\ chunk_buffer = <<>>
  /\ context = [first_think_found |-> FALSE]
  /\ out = <<>>
  /\ appended = <<>>
  /\ finalize_calls = 0
  /\ exit_path = "none"
  /\ lines_read = 0
  /\ deltas = Deltas
  /\ body \in Bodies
  /\ messages = <<>>
  /\ received = <<>>
  /\ finalized = <<>>
  /\ TransformOff
  /\ FinalizerOff
  /\ LoopOff
  /\ TwoOff

\* the steps of pipe up to the first upstream line
NextM ==
  \/ NoApiKey
  \/ PrepareRequest
  \/ RequestFails
  \/ HttpError
  \/ OpenStream

SpecM == InitM /\ [][NextM]_vars

----------------------------------------------------------------------------
(* Harness for _transform_chunk as a function of its arguments *)

\* the pieces input texts are concatenated from: the two markers, their torn
\* halves, the leftover fragments and plain characters
Pieces ==
  { OpenTag, CloseTag,
    <<"<", "t", "h", "i", "n", "k">>,
    <<"<", "t", "h", "i">>,
    <<"n", "k", ">">>,
    <<"k", ">">>,
    <<"k">>,
    <<">">>,
    <<"x">> }

\* all concatenations of at most n pieces
RECURSIVE TextsOf(_)
TextsOf(n) ==
  IF n = 0
  THEN {<<>>}
  ELSE LET shorter == TextsOf(n - 1)
       IN  shorter \cup {t \o p : t \in shorter, p \in Pieces}

InitT ==
  /\ t_pc = "in"
  /\ t_chunk \in TextsOf(MaxPieces)
  /\ t_last \in BOOLEAN
  /\ t_context \in [first_think_found : BOOLEAN]
  /\ t_first = <<>>
  /\ t_second = <<>>
  /\ PipeOff
  /\ FinalizerOff
  /\ LoopOff
  /\ TwoOff

\* t_first = self._transform_chunk(t_chunk, t_last, t_context)
TransformOnce ==
  /\ t_pc = "in"
  /\ LET r == _transform_chunk(t_chunk, t_last, t_context.first_think_found)
     IN  /\ t_first' = r.text
         /\ t_context' = [t_context EXCEPT !.first_think_found = r.first_think_found]
  /\ t_pc' = "once"
  /\ UNCHANGED <<t_chunk, t_last, t_second>>
  /\ UNCHANGED <<pipeVars, finalizerVars, loopVars, twoVars>>

\* t_second = self._transform_chunk(t_first, t_last, t_context)
TransformAgain ==
  /\ t_pc = "once"
  /\ LET r == _transform_chunk(t_first, t_last, t_context.first_think_found)
     IN  /\ t_second' = r.text
         /\ t_context' = [t_context EXCEPT !.first_think_found = r.first_think_found]
  /\ t_pc' = "twice"
  /\ UNCHANGED <<t_chunk, t_last, t_first>>
  /\ UNCHANGED <<pipeVars, finalizerVars, loopVars, twoVars>>

NextT ==
  \/ TransformOnce
  \/ TransformAgain

SpecT == InitT /\ [][NextT]_vars

----------------------------------------------------------------------------
(* Harness for _try_finalize_chunks and _finalize_all_chunks as functions of
   the buffer and the context *)

\* the chunk texts of the buffers: plain text, a closing marker inside text,
\* two opening markers
BufferChunks ==
  { <<"x">>,
    <<"a">> \o CloseTag \o <<"b">>,
    OpenTag \o <<"x">> \o OpenTag \o <<"y">> }

\* all buffers of at most n chunks
RECURSIVE BuffersOf(_)
BuffersOf(n) ==
  IF n = 0
  THEN {<<>>}
  ELSE LET shorter == BuffersOf(n - 1)
       IN  shorter \cup {Append(b, c) : b \in shorter, c \in BufferChunks}

\* a call of _try_finalize_chunks, or of _finalize_all_chunks with a buffer
\* as long as a partial call can leave it
InitF ==
  /\ f_pc = "in"
  /\ \/ /\ f_mode \in {"partial", "full"}
        /\ f_buffer \in BuffersOf(MaxBuffer)
     \/ /\ f_mode = "forced"
        /\ f_buffer \in BuffersOf(MaxDrain)
  /\ f_found \in BOOLEAN
  /\ f_result = NoResult
  /\ PipeOff
  /\ TransformOff
  /\ LoopOff
  /\ TwoOff

\* finalized = self._try_finalize_chunks(f_buffer, context, partial)
CallTryFinalize ==
  /\ f_pc = "in"
  /\ f_mode \in {"partial", "full"}
  /\ f_result' = _try_finalize_chunks(f_buffer, f_found, f_mode = "partial")
  /\ f_pc' = "done"
  /\ UNCHANGED <<f_buffer, f_found, f_mode>>
  /\ UNCHANGED <<pipeVars, transformVars, loopVars, twoVars>>

\* the first item is asked of self._finalize_all_chunks(f_buffer, context):
\* with an empty buffer the generator ends, otherwise it is suspended at the
\* yield of line 199 with the oldest chunk popped and transformed
CallFinalizeAll ==
  /\ f_pc = "in"
  /\ f_mode = "forced"
  /\ IF f_buffer = <<>>
     THEN /\ f_result' = [finalized |-> <<>>, buffer |-> <<>>, first_think_found |-> f_found]
          /\ f_pc' = "done"
     ELSE /\ f_result' = DrainStep(f_buffer, <<>>, f_found)
          /\ f_pc' = "draining"
  /\ UNCHANGED <<f_buffer, f_found, f_mode>>
  /\ UNCHANGED <<pipeVars, transformVars, loopVars, twoVars>>

\* the next item is asked of the generator suspended at line 199: the next
\* iteration of "while buffer" and its yield, or the end of the generator
\* when the buffer is empty
FinalizeAllNext ==
  /\ f_pc = "draining"
  /\ IF f_result.buffer = <<>>
     THEN /\ f_pc' = "done"
          /\ UNCHANGED f_result
     ELSE /\ f_result' = DrainStep(f_result.buffer, f_result.finalized,
                                  f_result.first_think_found)
          /\ f_pc' = "draining"
  /\ UNCHANGED <<f_buffer, f_found, f_mode>>
  /\ UNCHANGED <<pipeVars, transformVars, loopVars, twoVars>>

\* the consumer closes the generator suspended at line 199: GeneratorExit is
\* raised at the yield and the rest of the buffer stays where it is
FinalizeAllCloses ==
  /\ f_pc = "draining"
  /\ f_pc' = "closed"
  /\ UNCHANGED <<f_buffer, f_found, f_mode, f_result>>
  /\ UNCHANGED <<pipeVars, transformVars, loopVars, twoVars>>

NextF ==
  \/ CallTryFinalize
  \/ CallFinalizeAll
  \/ FinalizeAllNext
  \/ FinalizeAllCloses

SpecF == InitF /\ [][NextF]_vars

----------------------------------------------------------------------------
(* The loops of _try_finalize_chunks, _finalize_all_chunks and
   _transform_chunk, one iteration per step *)

\* the chunk texts of the loop harness: plain text, a closing marker inside
\* text, two opening markers, an opening marker inside an opening marker, a
\* closing marker inside a closing marker
LoopChunks ==
  { <<"x">>,
    <<"a">> \o CloseTag \o <<"b">>,
    OpenTag \o <<"x">> \o OpenTag \o <<"y">>,
    SubSeq(OpenTag, 1, 4) \o OpenTag \o Drop(OpenTag, 5),
    SubSeq(CloseTag, 1, 4) \o CloseTag \o Drop(CloseTag, 5) }

\* all buffers of at most n of these chunks
RECURSIVE LoopBuffersOf(_)
LoopBuffersOf(n) ==
  IF n = 0
  THEN {<<>>}
  ELSE LET shorter == LoopBuffersOf(n - 1)
       IN  shorter \cup {Append(b, c) : b \in shorter, c \in LoopChunks}

InitL ==
  /\ l_pc = "scan"
  /\ l_mode \in {"partial", "full", "forced"}
  /\ l_buffer0 \in LoopBuffersOf(MaxLoopBuffer)
  /\ l_found0 \in BOOLEAN
  /\ l_buffer = l_buffer0
  /\ l_found = l_found0
  /\ l_finalized = <<>>
  /\ l_result = <<>>
  /\ l_last = FALSE
  /\ l_steps = 0
  /\ PipeOff
  /\ TransformOff
  /\ FinalizerOff
  /\ TwoOff

\* the scan is at the head of the buffer (i = 0) and stops there: the buffer
\* is exhausted, or partial mode meets a closing marker with fewer than 5
\* chunks after it
ScanBreaks ==
  /\ l_mode = "partial"
  /\ l_buffer # <<>>
  /\ Contains(Head(l_buffer), CloseTag)
  /\ 0 + LookAhead >= Len(l_buffer)

\* while i < len(buffer) / while buffer is false, or break: the call returns
ScanStop ==
  /\ l_pc = "scan"
  /\ l_buffer = <<>> \/ ScanBreaks
  /\ l_pc' = "done"
  /\ UNCHANGED <<l_mode, l_buffer0, l_found0, l_buffer, l_found, l_finalized,
                 l_result, l_last, l_steps>>
  /\ UNCHANGED <<pipeVars, transformVars, finalizerVars, twoVars>>

\* faulty scan iteration: the chunk is read and not popped
ScanNoPop ==
  /\ l_pc = "scan"
  /\ l_buffer # <<>>
  /\ ~ScanBreaks
  /\ l_result' = Head(l_buffer)
  /\ l_last' = (l_mode = "forced")
  /\ l_steps' = 0
  /\ l_pc' = "think_loop"
  /\ UNCHANGED <<l_mode, l_buffer0, l_found0, l_buffer, l_found, l_finalized>>
  /\ UNCHANGED <<pipeVars, transformVars, finalizerVars, twoVars>>

\* one scan iteration: the head chunk is popped and _transform_chunk is
\* entered with is_last_think True in forced mode, "no closing marker in the
\* next 5 chunks" for a chunk with a closing marker, False otherwise
ScanPop ==
  /\ l_pc = "scan"
  /\ l_buffer # <<>>
  /\ ~ScanBreaks
  /\ LET chunk  == Head(l_buffer)
         popped == RemoveAt(l_buffer, 1)
     IN  /\ l_buffer' = popped
         /\ l_result' = chunk
         /\ l_last' = IF l_mode = "forced"
                      THEN TRUE
                      ELSE IF Contains(chunk, CloseTag)
                           THEN ~HasMoreThink(NextChunks(popped, 0))
                           ELSE FALSE
  /\ l_steps' = 0
  /\ l_pc' = "think_loop"
  /\ UNCHANGED <<l_mode, l_buffer0, l_found0, l_found, l_finalized>>
  /\ UNCHANGED <<pipeVars, transformVars, finalizerVars, twoVars>>

\* one iteration of while "<think>" in result
ThinkIteration ==
  /\ l_pc = "think_loop"
  /\ Contains(l_result, OpenTag)
  /\ IF ~l_found
     THEN /\ l_result' = ReplaceFirst(l_result, OpenTag, OpenDeco)
          /\ l_found' = TRUE
     ELSE /\ l_result' = ReplaceFirst(l_result, OpenTag, <<>>)
          /\ l_found' = l_found
  /\ l_steps' = l_steps + 1
  /\ UNCHANGED <<l_pc, l_mode, l_buffer0, l_found0, l_buffer, l_finalized, l_last>>
  /\ UNCHANGED <<pipeVars, transformVars, finalizerVars, twoVars>>

\* "<think>" in result is false: the first loop is left
ThinkLoopExit ==
  /\ l_pc = "think_loop"
  /\ ~Contains(l_result, OpenTag)
  /\ l_pc' = "end_think_loop"
  /\ UNCHANGED <<l_mode, l_buffer0, l_found0, l_buffer, l_found, l_finalized,
                 l_result, l_last, l_steps>>
  /\ UNCHANGED <<pipeVars, transformVars, finalizerVars, twoVars>>

\* one iteration of while "</think>" in result
EndThinkIteration ==
  /\ l_pc = "end_think_loop"
  /\ Contains(l_result, CloseTag)
  /\ l_result' = IF l_last
                 THEN ReplaceFirst(l_result, CloseTag, CloseDeco)
                 ELSE ReplaceFirst(l_result, CloseTag, <<>>)
  /\ l_steps' = l_steps + 1
  /\ UNCHANGED <<l_pc, l_mode, l_buffer0, l_found0, l_buffer, l_found, l_finalized, l_last>>
  /\ UNCHANGED <<pipeVars, transformVars, finalizerVars, twoVars>>

\* "</think>" in result is false: the six replace passes run, the text is
\* returned and appended to finalized (or yielded), the scan goes on
EndThinkLoopExit ==
  /\ l_pc = "end_think_loop"
  /\ ~Contains(l_result, CloseTag)
  /\ l_finalized' = Append(l_finalized, RemoveDebris(l_result, 1))
  /\ l_pc' = "scan"
  /\ UNCHANGED <<l_mode, l_buffer0, l_found0, l_buffer, l_found, l_result, l_last, l_steps>>
  /\ UNCHANGED <<pipeVars, transformVars, finalizerVars, twoVars>>

NextL ==
  \/ ScanStop
  \/ ScanPop
  \/ ThinkIteration
  \/ ThinkLoopExit
  \/ EndThinkIteration
  \/ EndThinkLoopExit

SpecLoop == InitL /\ [][NextL]_vars

----------------------------------------------------------------------------
(* Two pipe calls on one Pipe instance, interleaved at their suspension
   points: the await of the next upstream line and every yield *)

\* faulty storage: one chunk_buffer and one context on the instance, shared
\* by all calls
BufferSlotShared(r) == 1

\* the storage slot of the chunk_buffer and context of call r: they are
\* locals of the call, created at lines 76-77
BufferSlot(r) == r

\* the delta texts the upstreams send: a closing marker inside text, two
\* opening markers
TwoChunks ==
  { <<"a">> \o CloseTag \o <<"b">>,
    OpenTag \o <<"x">> \o OpenTag \o <<"y">> }

InitTwo ==
  /\ emitter = 0
  /\ r_pc = [r \in Responses |-> "start"]
  /\ store = [s \in Responses |-> FreshState]
  /\ r_finalized = [r \in Responses |-> <<>>]
  /\ r_out = [r \in Responses |-> <<>>]
  /\ r_chunks = [r \in Responses |-> <<>>]
  /\ PipeOff
  /\ TransformOff
  /\ FinalizerOff
  /\ LoopOff

\* call r runs from its start to the await of the HTTP response: it writes
\* self.emitter and creates its chunk_buffer and context
StartResponse(r) ==
  /\ r_pc[r] = "start"
  /\ emitter' = r
  /\ store' = [store EXCEPT ![BufferSlot(r)] = FreshState]
  /\ r_pc' = [r_pc EXCEPT ![r] = "stream"]
  /\ UNCHANGED <<r_finalized, r_out, r_chunks>>
  /\ UNCHANGED <<pipeVars, transformVars, finalizerVars, loopVars>>

\* call r receives a delta line: it appends the chunk, runs
\* _try_finalize_chunks in partial mode and reaches its first yield, or the
\* await of the next line if nothing was finalized
TwoDeltaLine(r) ==
  /\ r_pc[r] = "stream"
  /\ Len(r_chunks[r]) < MaxLinesTwo
  /\ \E new_chunk \in TwoChunks :
       LET mine   == store[BufferSlot(r)]
           result == _try_finalize_chunks(Append(mine.chunk_buffer, new_chunk),
                                          mine.context.first_think_found, TRUE)
       IN  /\ store' = [store EXCEPT ![BufferSlot(r)] =
                          [chunk_buffer |-> result.buffer,
                           context |-> [first_think_found |-> result.first_think_found]]]
           /\ r_finalized' = [r_finalized EXCEPT ![r] = result.finalized]
           /\ r_pc' = [r_pc EXCEPT ![r] = IF result.finalized = <<>> THEN "stream" ELSE "yield"]
           /\ r_chunks' = [r_chunks EXCEPT ![r] = Append(@, new_chunk)]
  /\ UNCHANGED <<emitter, r_out>>
  /\ UNCHANGED <<pipeVars, transformVars, finalizerVars, loopVars>>

\* for fc in finalized: yield fc, one item
YieldFinalized(r) ==
  /\ r_pc[r] = "yield"
  /\ r_out' = [r_out EXCEPT ![r] = Append(@, Head(r_finalized[r]))]
  /\ r_finalized' = [r_finalized EXCEPT ![r] = Tail(@)]
  /\ r_pc' = [r_pc EXCEPT ![r] = IF Tail(r_finalized[r]) = <<>> THEN "stream" ELSE "yield"]
  /\ UNCHANGED <<emitter, store, r_chunks>>
  /\ UNCHANGED <<pipeVars, transformVars, finalizerVars, loopVars>>

\* call r receives the end marker and enters _finalize_all_chunks
TwoDoneMarker(r) ==
  /\ r_pc[r] = "stream"
  /\ r_pc' = [r_pc EXCEPT ![r] = "flush"]
  /\ UNCHANGED <<emitter, store, r_finalized, r_out, r_chunks>>
  /\ UNCHANGED <<pipeVars, transformVars, finalizerVars, loopVars>>

\* one iteration of while buffer in _finalize_all_chunks: pop(0), transform
\* as the last occurrence, yield
FlushStep(r) ==
  /\ r_pc[r] = "flush"
  /\ store[BufferSlot(r)].chunk_buffer # <<>>
  /\ LET mine      == store[BufferSlot(r)]
         processed == _transform_chunk(Head(mine.chunk_buffer), TRUE,
                                       mine.context.first_think_found)
     IN  /\ store' = [store EXCEPT ![BufferSlot(r)] =
                        [chunk_buffer |-> Tail(mine.chunk_buffer),
                         context |-> [first_think_found |-> processed.first_think_found]]]
         /\ r_out' = [r_out EXCEPT ![r] = Append(@, processed.text)]
  /\ UNCHANGED <<emitter, r_pc, r_finalized, r_chunks>>
  /\ UNCHANGED <<pipeVars, transformVars, finalizerVars, loopVars>>

\* while buffer is false: _finalize_all_chunks ends and call r returns
FlushEnd(r) ==
  /\ r_pc[r] = "flush"
  /\ store[BufferSlot(r)].chunk_buffer = <<>>
  /\ r_pc' = [r_pc EXCEPT ![r] = "done"]
  /\ UNCHANGED <<emitter, store, r_finalized, r_out, r_chunks>>
  /\ UNCHANGED <<pipeVars, transformVars, finalizerVars, loopVars>>

NextTwo ==
  \E r \in Responses :
    \/ StartResponse(r)
    \/ TwoDeltaLine(r)
    \/ YieldFinalized(r)
    \/ TwoDoneMarker(r)
    \/ FlushStep(r)
    \/ FlushEnd(r)

SpecTwo == InitTwo /\ [][NextTwo]_vars

----------------------------------------------------------------------------
(* Vocabulary of the properties *)

\* the text fragments pipe has yielded, in order, error payloads left out
RECURSIVE TextBodies(_)
TextBodies(items) ==
  IF items = <<>>
  THEN <<>>
  ELSE IF Head(items).type = "text"
       THEN <<Head(items).body>> \o TextBodies(Tail(items))
       ELSE TextBodies(Tail(items))

Fragments == TextBodies(out)

\* the error payloads pipe has yielded
ErrorCount == Cardinality({k \in 1..Len(out) : out[k].type = "error"})

\* every text _transform_chunk can return for chunk
TransformsOf(chunk) ==
  {_transform_chunk(chunk, is_last_think, found).text :
     is_last_think \in BOOLEAN, found \in BOOLEAN}

\* number of non-overlapping occurrences of pat in s
RECURSIVE StrCount(_, _)
StrCount(s, pat) ==
  IF ~Contains(s, pat)
  THEN 0
  ELSE 1 + StrCount(Drop(s, IndexOf(s, pat) + Len(pat)), pat)

\* total number of occurrences of pat in the texts
RECURSIVE CountIn(_, _)
CountIn(texts, pat) ==
  IF texts = <<>>
  THEN 0
  ELSE StrCount(Head(texts), pat) + CountIn(Tail(texts), pat)

\* s ends with p; s starts with p
EndsWith(s, p) == Len(p) <= Len(s) /\ SubSeq(s, Len(s) - Len(p) + 1, Len(s)) = p
StartsWith(s, p) == Len(p) <= Len(s) /\ SubSeq(s, 1, Len(p)) = p

\* the fragments _try_finalize_chunks and _finalize_all_chunks have returned:
\* those yielded and those of the last partial call still to be yielded
Returned == Fragments \o finalized

\* the ways pipe leaves the streaming loop of its own accord
StreamingExits == {"done_marker", "finish_reason", "end_of_stream", "malformed", "exception"}

\* the terminations after which forced finalization has run
FlushingExits == {"done_marker", "finish_reason", "exception"}

----------------------------------------------------------------------------
(* Properties *)

\* C1: whenever pipe has stopped after reaching the streaming loop, by the
\* end marker, a finish_reason, the end of the line stream, a malformed
\* payload or an exception, forced finalization has run exactly once.
C1_FinalizedExactlyOnce ==
  (pc = "done" /\ exit_path \in StreamingExits) => finalize_calls = 1

\* C2: once pipe has stopped of its own accord, a fragment contains the
\* block-close decoration only if it was produced from the chunk holding the
\* last closing marker of the whole stream; so at most one fragment contains it.
C2_OnlyLastCloserDecorated ==
  (pc = "done" /\ exit_path # "closed") =>
    \A k \in 1..Len(Fragments) :
      Contains(Fragments[k], CloseDeco) =>
        /\ Contains(appended[k], CloseTag)
        /\ \A j \in (k + 1)..Len(appended) : ~Contains(appended[j], CloseTag)

\* C3: the text returned by _transform_chunk contains neither the complete
\* opening marker nor the complete closing marker, for every chunk, flag and
\* context.
C3_NoCompleteMarkerReturned ==
  t_pc \in {"once", "twice"} =>
    /\ ~Contains(t_first, OpenTag)
    /\ ~Contains(t_first, CloseTag)

\* C4: when a marker is torn across two consecutive chunks, the fragment of
\* the first chunk does not contain the torn prefix and the fragment of the
\* second does not contain the torn suffix.
C4_NoTornMarkerLeak ==
  \A k \in 1..(Len(Fragments) - 1) :
    \A marker \in {OpenTag, CloseTag} :
      \A cut \in 1..(Len(marker) - 1) :
        (/\ EndsWith(appended[k], SubSeq(marker, 1, cut))
         /\ StartsWith(appended[k + 1], Drop(marker, cut + 1)))
        => /\ ~Contains(Fragments[k], SubSeq(marker, 1, cut))
           /\ ~Contains(Fragments[k + 1], Drop(marker, cut + 1))

\* C5: when pipe has stopped by the end marker, a finish_reason or an
\* exception, with its consumer reading to the end, the buffer is empty and
\* every appended chunk has been transformed and yielded.
C5_FinalizationComplete ==
  (pc = "done" /\ exit_path \in FlushingExits) =>
    /\ chunk_buffer = <<>>
    /\ Len(Fragments) = Len(appended)
    /\ \A k \in 1..Len(appended) : Fragments[k] \in TransformsOf(appended[k])

\* a response that stopped on a finish_reason while its newest chunk, holding
\* a closing marker, was still waiting in the buffer
C5_Witness ==
  /\ pc = "done"
  /\ exit_path = "finish_reason"
  /\ Len(appended) >= 2
  /\ Contains(appended[Len(appended)], CloseTag)
  /\ Contains(appended[Len(appended) - 1], CloseTag)

\* C6: over one response the block-open decoration is inserted at most once,
\* however many opening markers the chunks hold.
C6_AtMostOneOpenDecoration == CountIn(Fragments, OpenDeco) <= 1

\* two chunks with two opening markers each have been yielded: the first as
\* the decoration followed by xy, the second as xy
C6_Witness ==
  /\ Len(Fragments) >= 2
  /\ StrCount(appended[1], OpenTag) = 2
  /\ StrCount(appended[2], OpenTag) = 2
  /\ Fragments[1] = OpenDeco \o <<"x", "y">>
  /\ Fragments[2] = <<"x", "y">>

\* C7: _transform_chunk applied to its own result, with the same flag and the
\* context the first call left, returns that result unchanged.
C7_TransformIdempotent ==
  t_pc = "twice" => t_second = t_first

\* C8: the buffer is always the suffix of the appended chunks for which no
\* fragment has been returned yet, and the k-th fragment returned, and so the
\* k-th fragment yielded, is a transformation of the k-th chunk appended:
\* chunks leave the buffer once, oldest first, one fragment each.
C8_InArrivalOrder ==
  /\ Len(Returned) <= Len(appended)
  /\ chunk_buffer = SubSeq(appended, Len(Returned) + 1, Len(appended))
  /\ \A k \in 1..Len(Returned) : Returned[k] \in TransformsOf(appended[k])

\* one partial call has removed a chunk with a closing marker and the four
\* chunks after it, and has left the newest chunk, with a closing marker, in
\* the buffer
C8_Witness ==
  /\ pc = "stream"
  /\ finalized = <<>>
  /\ Len(appended) = 6
  /\ Contains(appended[1], CloseTag)
  /\ Len(Fragments) = 5
  /\ chunk_buffer = <<appended[6]>>

\* a step of pipe inside its except clause: the one that enters it, or a
\* resumption at one of its yields
InExceptClause == pc # "done" /\ exit_path' = "exception"

\* in the except clause, as long as a chunk is buffered the next item yielded
\* is the forced transformation of the oldest one, which leaves the buffer,
\* and pipe goes on; with the buffer empty the next item is the error payload
\* and pipe ends, so the payload is the last item and nothing is left behind
FlushBeforeError ==
  /\ InExceptClause =>
       IF chunk_buffer # <<>>
       THEN /\ out' = Append(out, TextItem(_transform_chunk(Head(chunk_buffer), TRUE,
                                                            context.first_think_found).text))
            /\ chunk_buffer' = Tail(chunk_buffer)
            /\ pc' = "flush"
       ELSE /\ out' = Append(out, ErrorItem("exception"))
            /\ chunk_buffer' = <<>>
            /\ pc' = "done"
  /\ (pc' = "done" /\ exit_path' = "exception") =>
       /\ chunk_buffer' = <<>>
       /\ Len(Fragments') = Len(appended')
       /\ out'[Len(out')].type = "error"
       /\ ErrorCount' = 1

\* C9: an exception raised while chunks are buffered makes pipe yield the
\* forced transformation of every buffered chunk, oldest first and one per
\* yield, then one error payload, which is the last item, and stop.
C9_FlushThenError == [][FlushBeforeError]_vars

\* a response stopped by an exception while its two newest chunks, both
\* holding a closing marker, were buffered
C9_Witness ==
  /\ pc = "done"
  /\ exit_path = "exception"
  /\ Len(appended) >= 2
  /\ Contains(appended[Len(appended)], CloseTag)
  /\ Contains(appended[Len(appended) - 1], CloseTag)
  /\ out[Len(out)].type = "error"

\* C10: on a payload that is not JSON pipe yields exactly one error payload
\* next and stops: afterwards nothing more is yielded and no line is read.
C10_MalformedStopsWithOneError ==
  [][/\ (exit_path = "none" /\ exit_path' = "malformed") =>
          /\ out' = Append(out, ErrorItem("HTTP JSONDecodeError"))
          /\ pc' = "done"
     /\ exit_path = "malformed" =>
          /\ out' = out
          /\ lines_read' = lines_read
          /\ pc' = "done"]_vars

\* a response stopped by a malformed payload after it had yielded a fragment
\* and while a chunk was still buffered
C10_Witness ==
  /\ pc = "done"
  /\ exit_path = "malformed"
  /\ chunk_buffer # <<>>
  /\ Len(out) >= 2
  /\ out[Len(out)].type = "error"
  /\ ErrorCount = 1

\* the positions of f_buffer whose chunk contains the closing marker and has
\* fewer than 5 chunks after it
WaitingClosers ==
  {j \in 1..Len(f_buffer) :
     Contains(f_buffer[j], CloseTag) /\ Len(f_buffer) - j < LookAhead}

\* the least element of a non-empty set of positions
Least(S) == CHOOSE j \in S : \A k \in S : j <= k

\* context["first_think_found"] when the j-th chunk of f_buffer is transformed
FoundBefore(j) ==
  f_found \/ \E k \in 1..(j - 1) : Contains(f_buffer[k], OpenTag)

\* C12: a partial-mode call removes no chunk that contains the closing marker
\* while fewer than 5 chunks follow it: the scan stops at the first such chunk,
\* which stays in the buffer with all chunks after it, in order, and exactly
\* the chunks before it are finalized; forced finalization removes it.
C12_CloserWaitsForFiveChunks ==
  /\ (f_pc = "done" /\ f_mode = "partial") =>
        IF WaitingClosers = {}
        THEN /\ f_result.buffer = <<>>
             /\ Len(f_result.finalized) = Len(f_buffer)
        ELSE LET j == Least(WaitingClosers)
             IN  /\ f_result.buffer = SubSeq(f_buffer, j, Len(f_buffer))
                 /\ Len(f_result.finalized) = j - 1
  /\ (f_pc = "done" /\ f_mode = "forced") => f_result.buffer = <<>>

\* a partial-mode call that removed a chunk with the closing marker followed
\* by 5 chunks and kept a later one together with the chunk after it
C12_Witness ==
  /\ f_pc = "done"
  /\ f_mode = "partial"
  /\ Len(f_result.buffer) >= 2
  /\ Contains(Head(f_result.buffer), CloseTag)
  /\ \E j \in 1..Len(f_result.finalized) : Contains(f_buffer[j], CloseTag)

\* C13: in partial mode a chunk that contains the closing marker and has at
\* least 5 chunks after it is removed and transformed with is_last_think true
\* exactly when none of the 5 chunks right after it contains the closing
\* marker: its closing markers become the block-close decoration then and
\* are deleted otherwise; chunks further behind have no influence.
C13_LookaheadOfExactlyFive ==
  (f_pc = "done" /\ f_mode = "partial") =>
    \A j \in 1..Len(f_buffer) :
      (Contains(f_buffer[j], CloseTag) /\ Len(f_buffer) - j >= LookAhead) =>
        LET is_last == ~\E k \in (j + 1)..(j + LookAhead) : Contains(f_buffer[k], CloseTag)
            text    == f_result.finalized[j]
        IN  /\ j <= Len(f_result.finalized)
            /\ text = _transform_chunk(f_buffer[j], is_last, FoundBefore(j)).text
            /\ StrCount(text, CloseDeco) =
                 IF is_last THEN StrCount(f_buffer[j], CloseTag) ELSE 0

\* a closing marker with 5 plain chunks right after it and a closing marker
\* in the 6th chunk after it was replaced by the block-close decoration
C13_Witness ==
  /\ f_pc = "done"
  /\ f_mode = "partial"
  /\ \E j \in 1..Len(f_buffer) :
       /\ j + LookAhead + 1 <= Len(f_buffer)
       /\ Contains(f_buffer[j], CloseTag)
       /\ \A k \in (j + 1)..(j + LookAhead) : ~Contains(f_buffer[k], CloseTag)
       /\ Contains(f_buffer[j + LookAhead + 1], CloseTag)
       /\ Contains(f_result.finalized[j], CloseDeco)

\* C14: forced finalization empties the buffer from the oldest chunk to the
\* newest, one chunk per item: at every yield the items so far are the
\* fragments of the oldest chunks, each transformed with is_last_think true,
\* so that every closing marker is replaced by the block-close decoration,
\* and the buffer holds the chunks behind them; drained to its end it leaves
\* the buffer empty.
C14_ForcedDrainsAllAsLast ==
  (f_mode = "forced" /\ f_pc \in {"draining", "done", "closed"}) =>
    LET n == Len(f_result.finalized)
    IN  /\ n <= Len(f_buffer)
        /\ f_result.buffer = SubSeq(f_buffer, n + 1, Len(f_buffer))
        /\ f_pc = "done" => f_result.buffer = <<>>
        /\ \A k \in 1..n :
             /\ f_result.finalized[k] =
                  _transform_chunk(f_buffer[k], TRUE, FoundBefore(k)).text
             /\ StrCount(f_result.finalized[k], CloseDeco) = StrCount(f_buffer[k], CloseTag)
             /\ ~Contains(f_result.finalized[k], CloseTag)

\* forced finalization, drained to its end, of a buffer with closing markers
\* in two chunks
C14_Witness ==
  /\ f_pc = "done"
  /\ f_mode = "forced"
  /\ f_result.buffer = <<>>
  /\ \E j, k \in 1..Len(f_buffer) :
       /\ j < k
       /\ Contains(f_buffer[j], CloseTag)
       /\ Contains(f_buffer[k], CloseTag)
       /\ Contains(f_result.finalized[j], CloseDeco)
       /\ Contains(f_result.finalized[k], CloseDeco)

\* the positions of the appended chunks that contain the opening marker
OpenerChunks == {k \in 1..Len(appended) : Contains(appended[k], OpenTag)}

\* C16: when some chunk contains the opening marker and the response ended
\* with forced finalization, the block-open decoration occurs exactly once in
\* the output, in the fragment of the earliest such chunk at the position of
\* its first opening marker; first_think_found is true exactly from the
\* moment that chunk has been transformed, so it is never reset.
C16_OpenDecorationOnceAtFirstMarker ==
  /\ (pc = "done" /\ exit_path \in FlushingExits /\ OpenerChunks # {}) =>
        LET n   == Least(OpenerChunks)
            idx == IndexOf(appended[n], OpenTag)
        IN  /\ CountIn(Fragments, OpenDeco) = 1
            /\ SubSeq(Fragments[n], 1, idx - 1) = SubSeq(appended[n], 1, idx - 1)
            /\ MatchAt(Fragments[n], OpenDeco, idx)
            /\ \A k \in OpenerChunks : ~Contains(Fragments[k], OpenTag)
  /\ (pc \in {"connect", "stream", "yield", "flush", "done"} /\ exit_path \notin {"no_api_key"}) =>
        (context.first_think_found <=>
           \E k \in 1..Len(Returned) : Contains(appended[k], OpenTag))

\* a response ended by the end marker while a closing marker and two chunks
\* with opening markers behind it were waiting: the first of them got the
\* decoration, the second lost its markers
C16_Witness ==
  /\ pc = "done"
  /\ exit_path = "done_marker"
  /\ Len(appended) = 3
  /\ Contains(appended[1], CloseTag)
  /\ OpenerChunks = {2, 3}
  /\ Fragments[2] = OpenDeco \o <<"x", "y">>
  /\ Fragments[3] = <<"x", "y">>

\* C18: after every partial-mode call, until forced finalization begins, the
\* buffer is empty, or its first chunk contains the closing marker and it
\* holds at most 5 chunks; hence at most 5 appended chunks have no fragment
\* returned yet and the fragment of the n-th chunk is returned by the call
\* that follows the arrival of chunk n + 5 at the latest.
C18_BufferBoundedByLookahead ==
  /\ finalize_calls = 0 =>
       \/ chunk_buffer = <<>>
       \/ /\ Contains(Head(chunk_buffer), CloseTag)
          /\ Len(chunk_buffer) <= LookAhead
  /\ Len(appended) - Len(Returned) <= LookAhead
  /\ \A n \in 1..Len(appended) : n + LookAhead <= Len(appended) => n <= Len(Returned)

\* 5 chunks wait in the buffer behind a closing marker while the stream goes on
C18_Witness ==
  /\ pc = "stream"
  /\ Len(chunk_buffer) = LookAhead
  /\ Contains(Head(chunk_buffer), CloseTag)
  /\ Len(appended) > Len(chunk_buffer)

\* C15: every data line that carries a delta, a line that also carries a
\* finish_reason included, has its delta text appended to the buffer as one
\* new chunk: the appended chunks are the received delta texts, in order.
C15_EveryDeltaAppended == appended = received

\* the original messages of a normalized list: its placeholders left out
RECURSIVE Originals(_)
Originals(msgs) ==
  IF msgs = <<>>
  THEN <<>>
  ELSE IF Head(msgs).content = "[Unfinished thinking]"
       THEN Originals(Tail(msgs))
       ELSE <<Head(msgs)>> \o Originals(Tail(msgs))

\* the step of pipe that runs lines 63-77 to their end
NormalizationStep == pc = "start" /\ pc' = "connect"

\* the normalization of the body's messages as the step finds them: the
\* messages sent are the list of the body itself, no two consecutive ones
\* have the same role, the messages found are all there in their order, and
\* a placeholder stands only between two of them that were adjacent with
\* equal roles, one for each such pair
NormalizedInPlace ==
  NormalizationStep =>
    /\ body'.messages = messages'
    /\ \A k \in 1..(Len(messages') - 1) : messages'[k].role # messages'[k + 1].role
    /\ Originals(messages') = body.messages
    /\ \A k \in 1..Len(messages') :
         messages'[k].content = "[Unfinished thinking]" =>
           /\ 1 < k
           /\ k < Len(messages')
           /\ messages'[k - 1].content # "[Unfinished thinking]"
           /\ messages'[k + 1].content # "[Unfinished thinking]"
           /\ messages'[k - 1].role = messages'[k + 1].role
    /\ Len(messages') - Len(body.messages) =
         Cardinality({k \in 1..(Len(body.messages) - 1) :
                        body.messages[k].role = body.messages[k + 1].role})

\* C17: when the request has been prepared, no two consecutive messages of
\* the payload have the same role, the original messages are all there in
\* their original order, and a placeholder stands only between two messages
\* that were adjacent with equal roles in the body as it was passed.
C17_RolesAlternateAfterNormalization == [][NormalizedInPlace]_vars

\* three messages of the same role were sent with two placeholders between
\* them, and the caller's body holds the same five messages
C17_Witness ==
  /\ pc = "stream"
  /\ Len(messages) = 5
  /\ messages[1] = Message("assistant", Contents[1])
  /\ messages[2] = Placeholder("user")
  /\ messages[3] = Message("assistant", Contents[2])
  /\ messages[4] = Placeholder("user")
  /\ messages[5] = Message("assistant", Contents[3])
  /\ body.messages = messages

\* C19: every exception raised inside the try block of pipe, one raised
\* before chunk_buffer and context exist included, is handled by the except
\* clause: pipe ends with a JSON error payload as its last item and no
\* exception leaves it.
C19_ExceptionsEndInErrorPayload ==
  (pc = "done" /\ exit_path \in {"exception", "propagated"}) =>
    /\ exit_path = "exception"
    /\ out # <<>>
    /\ out[Len(out)].type = "error"

\* number of positions of s at which pat occurs
Occurrences(s, pat) == Cardinality({i \in 1..Len(s) : MatchAt(s, pat, i)})

\* a step that is an iteration of the first, of the second marker loop, of the scan
IsThinkIteration == l_pc = "think_loop" /\ l_pc' = "think_loop"
IsEndThinkIteration == l_pc = "end_think_loop" /\ l_pc' = "end_think_loop"
IsScanIteration == l_pc = "scan" /\ l_pc' # "scan"

\* C20 as stated: every iteration of a marker loop strictly reduces the
\* number of occurrences of its marker in the text, and every iteration of a
\* scan removes one chunk from the buffer or stops the scan.
C20_IterationReducesMarkerCount ==
  [][ /\ IsThinkIteration =>
          Occurrences(l_result', OpenTag) < Occurrences(l_result, OpenTag)
      /\ IsEndThinkIteration =>
          Occurrences(l_result', CloseTag) < Occurrences(l_result, CloseTag)
      /\ IsScanIteration =>
          l_pc' = "done" \/ Len(l_buffer') = Len(l_buffer) - 1 ]_vars

\* what an iteration of each loop achieves
ProgressOfIteration ==
  /\ IsThinkIteration =>
       \/ /\ ~l_found
          /\ l_found'
          /\ Occurrences(l_result', OpenTag) < Occurrences(l_result, OpenTag)
       \/ /\ l_found' = l_found
          /\ Len(l_result') < Len(l_result)
  /\ IsEndThinkIteration => Len(l_result') < Len(l_result)
  /\ IsScanIteration => (l_pc' = "done" \/ Len(l_buffer') = Len(l_buffer) - 1)

\* the rank of a state of the loops: the chunks still to be finalized, the
\* position inside the iteration, whether the decoration is still to come,
\* the length of the text
Rank ==
  << Len(l_buffer) + (IF l_pc \in {"think_loop", "end_think_loop"} THEN 1 ELSE 0),
     CASE l_pc = "scan" -> 3
       [] l_pc = "think_loop" -> 2
       [] l_pc = "end_think_loop" -> 1
       [] OTHER -> 0,
     IF l_found THEN 0 ELSE 1,
     Len(l_result) >>

\* a is before b in the lexicographic order of 4-tuples of naturals
LexLess(a, b) ==
  \E k \in 1..4 :
    /\ a[k] < b[k]
    /\ \A j \in 1..(k - 1) : a[j] = b[j]

\* C20 amended: every call of the three functions terminates, every step
\* strictly lowering a well-founded rank, and ends with the result of the
\* function; an iteration of the first marker loop either replaces a marker
\* by the decoration, setting first_think_found and reducing the number of
\* markers, or strictly shortens the text; an iteration of the second marker
\* loop strictly shortens the text; an iteration of a scan removes one chunk
\* from the buffer or stops the scan.
C20_LoopsTerminate ==
  /\ [][ProgressOfIteration /\ LexLess(Rank', Rank)]_vars
  /\ [](l_pc = "done" =>
          LET returned == IF l_mode = "forced"
                          THEN _finalize_all_chunks(l_buffer0, l_found0)
                          ELSE _try_finalize_chunks(l_buffer0, l_found0, l_mode = "partial")
          IN  /\ l_finalized = returned.finalized
              /\ l_buffer = returned.buffer
              /\ l_found = returned.first_think_found)

\* a finished call on one chunk with a single occurrence of the opening
\* marker whose first loop ran twice: deleting the marker formed a new one
C20_Witness ==
  /\ l_pc = "done"
  /\ Len(l_buffer0) = 1
  /\ Occurrences(l_buffer0[1], OpenTag) = 1
  /\ l_found0
  /\ l_steps = 2
  /\ l_finalized = << <<>> >>

\* a single pipe call that has appended chunks from the k-th on, starting
\* with this buffer, flag and output, and then received the end marker if
\* ended: what it has yielded and what its buffer and flag are
RECURSIVE AloneFrom(_, _, _, _, _, _)
AloneFrom(chunks, k, buffer, found, yielded, ended) ==
  IF k > Len(chunks)
  THEN IF ended
       THEN LET flushed == _finalize_all_chunks(buffer, found)
            IN  [out |-> yielded \o flushed.finalized, buffer |-> flushed.buffer,
                 first_think_found |-> flushed.first_think_found]
       ELSE [out |-> yielded, buffer |-> buffer, first_think_found |-> found]
  ELSE LET result == _try_finalize_chunks(Append(buffer, chunks[k]), found, TRUE)
       IN  AloneFrom(chunks, k + 1, result.buffer, result.first_think_found,
                     yielded \o result.finalized, ended)

RunAlone(chunks, ended) == AloneFrom(chunks, 1, <<>>, FALSE, <<>>, ended)

\* what call r has yielded and is about to yield without taking another line
OutputInSight(r) ==
  LET mine == store[BufferSlot(r)]
  IN  CASE r_pc[r] = "yield" -> r_out[r] \o r_finalized[r]
        [] r_pc[r] = "flush" ->
             r_out[r] \o _finalize_all_chunks(mine.chunk_buffer,
                                              mine.context.first_think_found).finalized
        [] OTHER -> r_out[r]

\* C11: two pipe calls on one Pipe instance interleaved at their suspension
\* points do not interfere: the buffer and the first_think_found flag of
\* each call are those of the call running alone on the same lines, whatever
\* the other call has done, and each call yields the fragments it yields alone.
C11_ResponsesDoNotInterfere ==
  \A r \in Responses :
    r_pc[r] \in {"stream", "yield", "flush", "done"} =>
      LET alone == RunAlone(r_chunks[r], r_pc[r] \in {"flush", "done"})
          mine  == store[BufferSlot(r)]
      IN  /\ OutputInSight(r) = alone.out
          /\ r_pc[r] \in {"stream", "yield"} =>
               /\ mine.chunk_buffer = alone.buffer
               /\ mine.context.first_think_found = alone.first_think_found
          /\ r_pc[r] = "done" => mine.chunk_buffer = <<>>

\* call 1 holds a chunk with a closing marker in its buffer and has not seen
\* an opening marker while call 2, started after it, has transformed an
\* opening marker, holds another buffer and is in the middle of its forced
\* finalization
C11_Witness ==
  /\ r_pc[1] = "stream"
  /\ r_pc[2] = "flush"
  /\ emitter = 2
  /\ Len(store[BufferSlot(1)].chunk_buffer) = 2
  /\ ~store[BufferSlot(1)].context.first_think_found
  /\ Len(store[BufferSlot(2)].chunk_buffer) = 1
  /\ store[BufferSlot(2)].context.first_think_found
  /\ Len(r_out[2]) = 1

====
